---- MODULE Spec2Model ----
(***************************************************************************)
(* Paperly API gateway: the tiered fixed-window rate limiter               *)
(* (middleware/rate_limit.py), the TTL cache (services/cache_service.py)   *)
(* and the fitness-threshold evaluation of the request pipeline (main.py). *)
(*                                                                         *)
(* Texts (header values, URL paths) are sequences of tokens; the Python    *)
(* operator `in` on strings is the contiguous-subsequence test Contains.   *)
(* Time is time.time() in whole seconds.                                   *)
(***************************************************************************)
EXTENDS Integers, Sequences, FiniteSets, TLC

VARIABLES now, memory_store, req, tr, cache, ttl_cache, last_set, op, fit,
          pipe, gp

vars ==
    <<now, memory_store, req, tr, cache, ttl_cache, last_set, op, fit, pipe,
      gp>>
limiterVars == <<memory_store, req>>
cacheVars == <<cache, ttl_cache, last_set, op>>

(***************************************************************************)
(* Bounds of the model.  The quotas and the period of the code's table     *)
(* (50, 200, 1000 calls per 60 s) are scaled down; their order is kept.    *)
(***************************************************************************)
AnonymousCalls == 1
StudentCalls == 2
AdminCalls == 3
Period == 2
MaxTime == 4
MaxReq == 3
MaxInFlight == 2
MaxHeaderLen == 5
MaxTtl == 2
\* The last clock value of the cache specification.
MaxCacheTime == 3
MaxPathLen == 4
\* RateLimitMiddleware as main.py installs it: calls=100, scaled down.
InstalledCalls == 2

Reqs == 1..MaxReq
Clients == {"10.0.0.1", "10.0.0.2"}
Tiers == {"anonymous", "student", "admin"}

(***************************************************************************)
(* Texts                                                                   *)
(***************************************************************************)
RECURSIVE SeqsUpTo(_, _)
SeqsUpTo(S, n) ==
    IF n = 0 THEN {<<>>}
    ELSE LET shorter == SeqsUpTo(S, n - 1)
         IN  shorter \cup {Append(s, c) : s \in shorter, c \in S}

\* Python `sub in s` for strings.
Contains(sub, s) ==
    \E i \in 0..(Len(s) - Len(sub)) :
        \A j \in 1..Len(sub) : s[i + j] = sub[j]

HeaderAlphabet == {"a", "d", "m", "i", "n", "x"}
AdminWord == <<"a", "d", "m", "i", "n">>

\* request.headers.get("authorization"): None when the header is missing.
NoHeader == [present |-> FALSE, text |-> <<>>]
HeaderOf(t) == [present |-> TRUE, text |-> t]
\* Python truthiness of the value: None and "" are false.
Truthy(h) == h.present /\ Len(h.text) > 0

(***************************************************************************)
(* Identity of a credential (models/auth.py).  jwt.encode yields opaque    *)
(* base64 text: the two issued tokens are fixed texts, and every other     *)
(* text fails verification.                                                *)
(***************************************************************************)
StudentToken == <<"x", "i", "x">>
AdminToken == <<"x", "n", "x">>

get_current_user(h) ==
    IF ~h.present THEN "none"
    ELSE IF h.text = StudentToken THEN "student"
    ELSE IF h.text = AdminToken THEN "admin"
    ELSE "invalid"

(***************************************************************************)
(* AdvancedRateLimitMiddleware                                             *)
(***************************************************************************)
limits ==
    [anonymous |-> [calls |-> AnonymousCalls, period |-> Period],
     student   |-> [calls |-> StudentCalls,   period |-> Period],
     admin     |-> [calls |-> AdminCalls,     period |-> Period]]

\* dispatch, "Determine user tier" (lines 51-57).
ResolveTier(auth_header) ==
    IF Truthy(auth_header)
    THEN IF Contains(AdminWord, auth_header.text) THEN "admin" ELSE "student"
    ELSE "anonymous"

\* (a key that starts a new window every second)
KeyOfPerSecond(client_ip, user_tier, current_time) ==
    <<client_ip, user_tier, current_time>>

\* (a key that puts every tier on the anonymous counter)
KeyOfAnyTier(client_ip, user_tier, current_time) ==
    <<client_ip, "anonymous", current_time \div limits[user_tier].period>>

\* key = f"rate_limit:{client_ip}:{user_tier}:{current_time // period}"
KeyOf(client_ip, user_tier, current_time) ==
    <<client_ip, user_tier, current_time \div limits[user_tier].period>>

\* int(k.split(":")[-1])
WindowOf(k) == k[Len(k)]

\* (a counter that is set to 0 on every request)
InitCounterAlways(store, key) ==
    [k \in DOMAIN store \cup {key} |-> IF k = key THEN 0 ELSE store[k]]

\* if key not in self.memory_store: self.memory_store[key] = 0
InitCounter(store, key) ==
    IF key \in DOMAIN store THEN store
    ELSE [k \in DOMAIN store \cup {key} |-> IF k = key THEN 0 ELSE store[k]]

\* (a counter that is never incremented)
KeepCount(store, key) == store

\* (a counter that is incremented twice)
IncrementTwice(store, key) == [store EXCEPT ![key] = @ + 2]

\* self.memory_store[key] += 1
Increment(store, key) == [store EXCEPT ![key] = @ + 1]

\* (a cleaning that keeps one window more)
CleanOlder(store, window) ==
    [k \in {x \in DOMAIN store : ~(WindowOf(x) < window - 2)} |-> store[k]]

\* (a cleaning that removes the previous window too)
CleanPrevious(store, window) ==
    [k \in {x \in DOMAIN store : ~(WindowOf(x) < window)} |-> store[k]]

\* "Clean old keys": del every k whose window is < current window - 1
CleanOld(store, window) ==
    [k \in {x \in DOMAIN store : ~(WindowOf(x) < window - 1)} |-> store[k]]

\* (a comparison that rejects the request that reaches the quota)
ExceedsOrReaches(count, calls) == count >= calls

\* if self.memory_store[key] > limits["calls"]
Exceeds(count, calls) == count > calls

\* (the detail of RateLimitMiddleware, which names no tier and no limit)
RejectDetailPlain(user_tier) == [tier |-> "-", calls |-> 0, period |-> 0]

\* detail of the HTTPException: tier, calls and period of the f-string
RejectDetail(user_tier) ==
    [tier |-> user_tier, calls |-> limits[user_tier].calls,
     period |-> limits[user_tier].period]

Max(a, b) == IF a > b THEN a ELSE b

\* (a remaining quota that is not clamped at 0)
RemainingUnclamped(calls, count) == calls - count

\* X-RateLimit-Remaining
Remaining(calls, count) == Max(0, calls - count)

\* X-RateLimit-Reset
ResetAt(current_time, period) == (current_time \div period + 1) * period

RateLimitHeaders(user_tier, current_time, count) ==
    [limit     |-> limits[user_tier].calls,
     remaining |-> Remaining(limits[user_tier].calls, count),
     reset     |-> ResetAt(current_time, limits[user_tier].period),
     tier      |-> user_tier]

NoHeaders == [limit |-> 0, remaining |-> 0, reset |-> 0, tier |-> "-"]
NoDetail == [tier |-> "-", calls |-> 0, period |-> 0]
NoOutcome == [kind |-> "none", status_code |-> 0, detail |-> NoDetail,
              headers |-> NoHeaders]

(***************************************************************************)
(* One request.  pc: "idle" (slot unused), "handler" (dispatch suspended   *)
(* in `await call_next`), "done" (response returned), "rejected"           *)
(* (HTTPException raised), "failed" (KeyError raised at line 86).          *)
(* count is self.memory_store[key] as read at line 76; handler_calls is    *)
(* the number of times call_next was called for the request.               *)
(***************************************************************************)
IdleReq ==
    [pc |-> "idle", client_ip |-> "-", auth_header |-> NoHeader,
     user_tier |-> "-", current_time |-> 0, count |-> 0,
     handler_calls |-> 0, outcome |-> NoOutcome]

LimiterHeaders == {NoHeader, HeaderOf(StudentToken), HeaderOf(AdminWord)}

\* The requests of the model: the first client sends every header, the
\* second one sends none.
RequestInputs ==
    {p \in Clients \X LimiterHeaders :
        p[1] = "10.0.0.2" => p[2] = NoHeader}

InHandler == {q \in Reqs : req[q].pc = "handler"}

Dispatched(q) == q.pc \in {"handler", "done", "rejected", "failed"}
Admitted(q) == q.pc \in {"handler", "done", "failed"}
ReqKey(q) == KeyOf(q.client_ip, q.user_tier, q.current_time)

(***************************************************************************)
(* RateLimitMiddleware, the limiter main.py installs (calls=100,           *)
(* period=60): one counter per client IP and window, no tier.  In the      *)
(* specification of the installed limiter memory_store and req are its     *)
(* store and its requests.                                                 *)
(***************************************************************************)
\* key = f"rate_limit:{client_ip}:{current_time // self.period}"
SimpleKeyOf(client_ip, current_time) == <<client_ip, current_time \div Period>>

SimpleReqKey(q) == SimpleKeyOf(q.client_ip, q.current_time)

\* detail="Rate limit exceeded"
PlainDetail == [tier |-> "-", calls |-> 0, period |-> 0]

(***************************************************************************)
(* DistributedCacheService                                                 *)
(***************************************************************************)
CacheKeys == {"paper:1", "paper:2"}
CacheValues == {"v1", "v2"}
Ttls == 0..MaxTtl
\* Python None
Absent == "None"

\* (a del that empties the dict)
Clear(d, key) == <<>>

\* del d[key]
Remove(d, key) == [k \in DOMAIN d \ {key} |-> d[k]]
\* (a store that keeps the entry a key already has)
PutIfAbsent(d, key, value) ==
    [k \in DOMAIN d \cup {key} |-> IF k \in DOMAIN d THEN d[k] ELSE value]

\* (a dict that holds one entry only)
PutSingle(d, key, value) == [k \in {key} |-> value]

\* d[key] = value
Put(d, key, value) ==
    [k \in DOMAIN d \cup {key} |-> IF k = key THEN value ELSE d[k]]

\* (an entry that expires as soon as the clock reaches expires_at)
ExpiredAtOrAfter(t, expires_at) == t >= expires_at

\* time.time() > self.ttl_cache[key]
Expired(t, expires_at) == t > expires_at

\* (an expiry that forgets the current time)
ExpiresAtTtlOnly(t, ttl) == ttl

\* time.time() + ttl
ExpiresAt(t, ttl) == t + ttl

\* (a get that reports an expired entry absent and leaves it stored)
CacheGetNoEvict(c, tc, key, t) ==
    [cache |-> c, ttl_cache |-> tc,
     ret |-> IF key \in DOMAIN c
             THEN IF key \in DOMAIN tc /\ Expired(t, tc[key])
                  THEN Absent ELSE c[key]
             ELSE Absent,
     error |-> "none"]

\* (a get that extends the expiry of the entry it returns)
CacheGetSliding(c, tc, key, t) ==
    IF key \in DOMAIN c
    THEN IF key \in DOMAIN tc /\ Expired(t, tc[key])
         THEN [cache |-> Remove(c, key), ttl_cache |-> Remove(tc, key),
               ret |-> Absent, error |-> "none"]
         ELSE [cache |-> c, ttl_cache |-> [tc EXCEPT ![key] = @ + 1],
               ret |-> c[key], error |-> "none"]
    ELSE [cache |-> c, ttl_cache |-> tc, ret |-> Absent, error |-> "none"]

\* get
CacheGet(c, tc, key, t) ==
    IF key \in DOMAIN c
    THEN IF key \in DOMAIN tc /\ Expired(t, tc[key])
         THEN [cache |-> Remove(c, key), ttl_cache |-> Remove(tc, key),
               ret |-> Absent, error |-> "none"]
         ELSE [cache |-> c, ttl_cache |-> tc, ret |-> c[key],
               error |-> "none"]
    ELSE [cache |-> c, ttl_cache |-> tc, ret |-> Absent, error |-> "none"]

\* (a set that never shortens the expiry of a stored key)
CacheSetExtendOnly(c, tc, key, value, ttl, t) ==
    [cache |-> Put(c, key, value),
     ttl_cache |-> IF key \in DOMAIN tc /\ tc[key] > ExpiresAt(t, ttl)
                   THEN tc ELSE Put(tc, key, ExpiresAt(t, ttl)),
     ret |-> Absent, error |-> "none"]

\* set
CacheSet(c, tc, key, value, ttl, t) ==
    [cache |-> Put(c, key, value),
     ttl_cache |-> Put(tc, key, ExpiresAt(t, ttl)),
     ret |-> Absent, error |-> "none"]

\* (a delete that removes the expiry and leaves the value)
CacheDeleteExpiryOnly(c, tc, key) ==
    [cache |-> c,
     ttl_cache |-> IF key \in DOMAIN tc THEN Remove(tc, key) ELSE tc,
     ret |-> Absent, error |-> "none"]

\* (a delete that removes the value and leaves the expiry)
CacheDeleteValueOnly(c, tc, key) ==
    [cache |-> IF key \in DOMAIN c THEN Remove(c, key) ELSE c,
     ttl_cache |-> tc,
     ret |-> Absent, error |-> "none"]

\* delete
CacheDelete(c, tc, key) ==
    [cache |-> IF key \in DOMAIN c THEN Remove(c, key) ELSE c,
     ttl_cache |-> IF key \in DOMAIN tc THEN Remove(tc, key) ELSE tc,
     ret |-> Absent, error |-> "none"]

\* last_set[k]: the last set or delete of k ("never", "set", "deleted"),
\* with the arguments and the time of the last set.
NeverSet == [state |-> "never", value |-> Absent, at |-> 0, ttl |-> 0]
\* op: the last operation on the cache, the time of the call and its result.
\* (statistics that count the unexpired entries only)
CacheStatsLive(c, tc) ==
    [total_keys |-> Cardinality({k \in DOMAIN c : ~(now > tc[k])}),
     hit_rate |-> "0.85", memory_usage |-> "45MB"]

\* get_stats
CacheStats(c, tc) ==
    [total_keys |-> Cardinality(DOMAIN c),
     hit_rate |-> "0.85", memory_usage |-> "45MB"]

NoStats == [total_keys |-> -1, hit_rate |-> "-", memory_usage |-> "-"]

\* replaced is the entry of the key that a set overwrote, stats the dict
\* that get_stats returned.
NoEntry == [value |-> Absent, expires_at |-> -1]
EntryOf(c, tc, key) ==
    [value |-> IF key \in DOMAIN c THEN c[key] ELSE Absent,
     expires_at |-> IF key \in DOMAIN tc THEN tc[key] ELSE -1]
NoOp == [name |-> "none", key |-> "-", at |-> 0, ret |-> Absent,
         error |-> "none", replaced |-> NoEntry, stats |-> NoStats]

(***************************************************************************)
(* Tier resolution on its own: every header text up to MaxHeaderLen.       *)
(***************************************************************************)
TierOff == [pc |-> "off", auth_header |-> NoHeader, user_tier |-> "-"]

AllHeaders ==
    {NoHeader} \cup {HeaderOf(t) : t \in SeqsUpTo(HeaderAlphabet, MaxHeaderLen)}

(***************************************************************************)
(* logging_and_metrics_middleware: the fitness functions.  A path is a     *)
(* sequence of tokens; "/search" is <<"/", "search">>.                     *)
(***************************************************************************)
PathAlphabet == {"/", "search", "papers", "v1"}
Paths == {p \in SeqsUpTo(PathAlphabet, MaxPathLen) : Len(p) > 0 /\ p[1] = "/"}
Methods == {"GET", "POST"}
Durations == {50, 100, 101, 200, 201, 250, 1000, 1001}

SearchThreshold == 200
CatalogThreshold == 100
GatewayThreshold == 1000

\* if "/search" in endpoint and duration_ms > 200
SearchRule(method, endpoint, duration_ms) ==
    Contains(<<"/", "search">>, endpoint) /\ duration_ms > SearchThreshold

\* (a catalog rule that forgets the method)
CatalogRuleAnyMethod(method, endpoint, duration_ms) ==
    Contains(<<"/", "papers", "/">>, endpoint)
        /\ duration_ms > CatalogThreshold

\* if "/papers/" in endpoint and request.method == "GET" and duration_ms > 100
CatalogRule(method, endpoint, duration_ms) ==
    /\ Contains(<<"/", "papers", "/">>, endpoint)
    /\ method = "GET"
    /\ duration_ms > CatalogThreshold

\* (a gateway rule that fires at the threshold)
GatewayRuleAtThreshold(method, endpoint, duration_ms) ==
    duration_ms >= GatewayThreshold

\* if duration_ms > 1000
GatewayRule(method, endpoint, duration_ms) == duration_ms > GatewayThreshold

\* The rules that fire: each sets fitness_checks_passed = False.
FiredRules(method, endpoint, duration_ms) ==
    (IF SearchRule(method, endpoint, duration_ms)
        THEN {"search_response_time"} ELSE {})
    \cup (IF CatalogRule(method, endpoint, duration_ms)
             THEN {"catalog_response_time"} ELSE {})
    \cup (IF GatewayRule(method, endpoint, duration_ms)
             THEN {"gateway_response_time"} ELSE {})

\* FITNESS_VIOLATIONS.labels(...).inc() inside try/except: pass
Incremented(fired, sink_ok) == IF sink_ok THEN fired ELSE {}

\* X-Fitness-Status
FitnessStatus(fired) == IF fired = {} THEN "PASS" ELSE "VIOLATION"

FitOff == [pc |-> "off", method |-> "-", endpoint |-> <<>>,
           duration_ms |-> 0, sink_ok |-> TRUE, fired |-> {},
           incremented |-> {}, status |-> "-"]

(***************************************************************************)
(* logging_and_metrics_middleware: one request through the pipeline.       *)
(* pc: "off", "request" (not yet entered), "awaiting" (suspended in        *)
(* `await call_next`), "returned" (line 231), "raised" (line 246),         *)
(* "handled" (general_exception_handler has returned).                     *)
(* Durations are whole milliseconds.                                       *)
(***************************************************************************)
\* str(uuid.uuid4())
RequestIds == {"id-1", "id-2"}
StatusCodes == {200, 404}
Bodies == {"body-1", "body-2"}
\* The headers the wrapped application puts on its response.
HandlerHeaders ==
    {("content-type" :> "application/json"),
     ("content-type" :> "application/json") @@ ("X-Request-ID" :> "inner")}
ErrorDetails == {"secret-1", "secret-2"}
\* The metric objects whose call raises.
Sinks == {"REQUEST_COUNT", "REQUEST_DURATION", "FITNESS_VIOLATIONS"}

NoResult == [kind |-> "none", status_code |-> 0, body |-> "-",
             headers |-> <<>>, error |-> "-", error_type |-> "-"]

\* What `await call_next(request)` yields: a response of the wrapped
\* application, an exception of the handler, or the HTTPException that
\* RateLimitMiddleware raises.
CallNextResponses ==
    {[NoResult EXCEPT !.kind = "response", !.status_code = sc, !.body = b,
         !.headers = h] :
         sc \in StatusCodes, b \in Bodies, h \in HandlerHeaders}
CallNextExceptions ==
    {[NoResult EXCEPT !.kind = "exception", !.error = d,
         !.error_type = "ValueError"] : d \in ErrorDetails}
    \cup {[NoResult EXCEPT !.kind = "exception", !.status_code = 429,
             !.error = "Rate limit exceeded", !.error_type = "HTTPException"]}

\* f"{duration_ms:.2f}ms"
FormatMs(duration_ms) == ToString(duration_ms) \o ".00ms"

\* Lines 140-153: what the metrics sink records of one request when the
\* objects in `failing` raise; the first raise leaves the try block.
RecordMetrics(failing) ==
    IF "REQUEST_COUNT" \in failing
    THEN [request_count |-> 0, duration_samples |-> 0, warned |-> TRUE]
    ELSE IF "REQUEST_DURATION" \in failing
    THEN [request_count |-> 1, duration_samples |-> 0, warned |-> TRUE]
    ELSE [request_count |-> 1, duration_samples |-> 1, warned |-> FALSE]

\* (a status taken from the violation counters that were incremented)
StatusOfIncremented(fired, incremented) == FitnessStatus(incremented)

\* fitness_checks_passed = False follows each try/except: the status
\* depends on the rules that fired, not on the increments that succeeded.
StatusOf(fired, incremented) == FitnessStatus(fired)

\* (a pipeline that forgets the fitness header)
AddHeadersNoFitness(headers, request_id, duration_ms, status) ==
    Put(Put(headers, "X-Request-ID", request_id),
        "X-Response-Time", FormatMs(duration_ms))

\* Lines 227-229.
AddHeaders(headers, request_id, duration_ms, status) ==
    Put(Put(Put(headers, "X-Request-ID", request_id),
            "X-Response-Time", FormatMs(duration_ms)),
        "X-Fitness-Status", status)

PipelineHeaderNames == {"X-Request-ID", "X-Response-Time", "X-Fitness-Status"}

LogEntry(event, request_id, duration_ms, error) ==
    [event |-> event, request_id |-> request_id,
     duration_ms |-> duration_ms, error |-> error]

\* (a body that carries str(exc))
ErrorBodyWithDetail(exc, request_id) ==
    [code |-> 500, message |-> exc.error, request_id |-> request_id]

\* The dict that general_exception_handler returns (lines 438-445).
ErrorBody(exc, request_id) ==
    [code |-> 500, message |-> "Internal server error",
     request_id |-> request_id]

NoBody == [code |-> 0, message |-> "-", request_id |-> "-"]

PipeOff ==
    [pc |-> "off", method |-> "-", endpoint |-> <<>>, request_id |-> "-",
     state_request_id |-> "unknown", inner |-> NoResult, duration_ms |-> 0,
     failing |-> {}, request_count |-> 0, duration_samples |-> 0,
     fired |-> {}, violations |-> {}, log |-> <<>>, result |-> NoResult,
     client |-> NoBody]

\* The log entries that carry no elapsed time.
NoDuration == -1

\* logger.warning of each rule that fired, in the order of lines 159-213.
FitnessWarnings(fired, request_id, duration_ms) ==
    LET warn(f) == IF f \in fired
                   THEN <<LogEntry(f, request_id, duration_ms, "-")>>
                   ELSE <<>>
    IN  warn("search_response_time") \o warn("catalog_response_time")
            \o warn("gateway_response_time")

(***************************************************************************)
(* get_paper (routers/papers.py): two requests.  pc: "idle", "fetching"    *)
(* (suspended in `await PaperOperations.get_paper_by_id`), "returned".     *)
(* looked and stored number the lookups and the sets in the order in which *)
(* they ran.  The result built from the row read is the row's value.       *)
(***************************************************************************)
Papers == 1..2
\* ttl=300 of line 68, scaled down.
PaperTtl == 2

\* (a handler that returns whatever the lookup gave)
ServeAlways(cached_paper) == TRUE

\* if cached_paper:
ServeFromCache(cached_paper) == cached_paper # Absent

IdlePaper == [pc |-> "idle", cache_key |-> "-", cached_paper |-> Absent,
              paper |-> Absent, ret |-> Absent, looked |-> 0, stored |-> 0]
GpOff == [g \in Papers |-> IdlePaper]

\* The lookups and sets that ran so far.
PaperEvents ==
    Cardinality({g \in Papers : gp[g].looked > 0})
        + Cardinality({g \in Papers : gp[g].stored > 0})

(***************************************************************************)
(* State machine                                                           *)
(***************************************************************************)
Init ==
    /\ now = 0
    /\ memory_store = <<>>
    /\ req = [r \in Reqs |-> IdleReq]
    /\ tr = TierOff
    /\ cache = <<>>
    /\ ttl_cache = <<>>
    /\ last_set = [k \in CacheKeys |-> NeverSet]
    /\ op = NoOp
    /\ fit = FitOff
    /\ pipe = PipeOff
    /\ gp = GpOff

\* time.time() advances
Tick ==
    /\ now < MaxTime
    /\ now' = now + 1
    /\ UNCHANGED <<limiterVars, cacheVars, tr, fit, pipe, gp>>

\* A request of client_ip with Authorization header auth_header runs
\* dispatch, lines 50-82: from entry up to the raise or the await.  The
\* segment holds no await, so no other coroutine runs inside it.  Slots are
\* taken in order, and at most MaxInFlight handlers run at a time.
DispatchEnter(r, client_ip, auth_header) ==
    /\ req[r].pc = "idle"
    /\ IF r = 1 THEN TRUE ELSE req[r - 1].pc # "idle"
    /\ LET user_tier == ResolveTier(auth_header)
           current_time == now
           lim == limits[user_tier]
           key == KeyOf(client_ip, user_tier, current_time)
           store == CleanOld(Increment(InitCounter(memory_store, key), key),
                             current_time \div lim.period)
           entered == [IdleReq EXCEPT !.client_ip = client_ip,
                          !.auth_header = auth_header,
                          !.user_tier = user_tier,
                          !.current_time = current_time,
                          !.count = store[key]]
       IN  /\ memory_store' = store
           /\ Exceeds(store[key], lim.calls)
                \/ Cardinality(InHandler) < MaxInFlight
           /\ IF Exceeds(store[key], lim.calls)
              THEN req' = [req EXCEPT ![r] =
                       [entered EXCEPT !.pc = "rejected",
                          !.outcome = [kind |-> "HTTPException",
                                       status_code |-> 429,
                                       detail |-> RejectDetail(user_tier),
                                       headers |-> NoHeaders]]]
              ELSE req' = [req EXCEPT ![r] =
                       [entered EXCEPT !.pc = "handler",
                          !.handler_calls = @ + 1]]
    /\ UNCHANGED <<now, tr, cacheVars, fit, pipe, gp>>

\* dispatch, lines 82-90: call_next returns a response, headers are added.
HandlerReturn(r) ==
    /\ req[r].pc = "handler"
    /\ LET key == ReqKey(req[r])
       IN  IF key \in DOMAIN memory_store
           THEN req' = [req EXCEPT ![r] =
                    [@ EXCEPT !.pc = "done",
                       !.outcome = [kind |-> "response", status_code |-> 200,
                                    detail |-> NoDetail,
                                    headers |-> RateLimitHeaders(
                                        req[r].user_tier, req[r].current_time,
                                        memory_store[key])]]]
           ELSE req' = [req EXCEPT ![r] =
                    [@ EXCEPT !.pc = "failed",
                       !.outcome = [kind |-> "KeyError", status_code |-> 0,
                                    detail |-> NoDetail,
                                    headers |-> NoHeaders]]]
    /\ UNCHANGED <<now, memory_store, tr, cacheVars, fit, pipe, gp>>

Get(key) ==
    /\ LET res == CacheGet(cache, ttl_cache, key, now)
       IN  /\ cache' = res.cache
           /\ ttl_cache' = res.ttl_cache
           /\ op' = [name |-> "get", key |-> key, at |-> now,
                     ret |-> res.ret, error |-> res.error,
                     replaced |-> NoEntry, stats |-> NoStats]
    /\ UNCHANGED <<now, last_set, limiterVars, tr, fit, pipe, gp>>

Set(key, value, ttl) ==
    /\ LET res == CacheSet(cache, ttl_cache, key, value, ttl, now)
       IN  /\ cache' = res.cache
           /\ ttl_cache' = res.ttl_cache
           /\ op' = [name |-> "set", key |-> key, at |-> now,
                     ret |-> res.ret, error |-> res.error,
                     replaced |-> EntryOf(cache, ttl_cache, key),
                     stats |-> NoStats]
    /\ last_set' = [last_set EXCEPT ![key] =
                       [state |-> "set", value |-> value, at |-> now,
                        ttl |-> ttl]]
    /\ UNCHANGED <<now, limiterVars, tr, fit, pipe, gp>>

Delete(key) ==
    /\ LET res == CacheDelete(cache, ttl_cache, key)
       IN  /\ cache' = res.cache
           /\ ttl_cache' = res.ttl_cache
           /\ op' = [name |-> "delete", key |-> key, at |-> now,
                     ret |-> res.ret, error |-> res.error,
                     replaced |-> NoEntry, stats |-> NoStats]
    /\ last_set' = [last_set EXCEPT ![key].state =
                       IF @ = "never" THEN "never" ELSE "deleted"]
    /\ UNCHANGED <<now, limiterVars, tr, fit, pipe, gp>>

GetStats ==
    /\ op' = [NoOp EXCEPT !.name = "get_stats", !.at = now,
                  !.stats = CacheStats(cache, ttl_cache)]
    /\ UNCHANGED <<now, cache, ttl_cache, last_set, limiterVars, tr, fit,
                   pipe, gp>>

NextCache ==
    \/ now < MaxCacheTime /\ Tick
    \/ \E k \in CacheKeys : Get(k)
    \/ \E k \in CacheKeys, v \in CacheValues, ttl \in Ttls : Set(k, v, ttl)
    \/ \E k \in CacheKeys : Delete(k)
    \/ GetStats

ResolveStep ==
    /\ tr.pc = "input"
    /\ tr' = [tr EXCEPT !.pc = "resolved",
                        !.user_tier = ResolveTier(tr.auth_header)]
    /\ UNCHANGED <<now, limiterVars, cacheVars, fit, pipe, gp>>

NextTier == ResolveStep

\* Lines 155-229 for one completed request.
Evaluate ==
    /\ fit.pc = "request"
    /\ LET fired == FiredRules(fit.method, fit.endpoint, fit.duration_ms)
       IN  fit' = [fit EXCEPT !.pc = "evaluated", !.fired = fired,
                      !.incremented = Incremented(fired, fit.sink_ok),
                      !.status = FitnessStatus(fired)]
    /\ UNCHANGED <<now, limiterVars, cacheVars, tr, pipe, gp>>

NextFitness == Evaluate

\* Lines 117-131: the request id is drawn and stored in request.state, the
\* start is logged.
PipelineEnter(request_id) ==
    /\ pipe.pc = "request"
    /\ pipe' = [pipe EXCEPT !.pc = "awaiting", !.request_id = request_id,
                   !.state_request_id = request_id,
                   !.log = Append(@, LogEntry("Request started", request_id,
                                              NoDuration, "-"))]
    /\ UNCHANGED <<now, limiterVars, cacheVars, tr, fit, gp>>

\* Lines 135-231: call_next returns `response` after duration_ms, while the
\* metric objects in `failing` raise on every call.
CallNextReturns(response, duration_ms, failing) ==
    /\ pipe.pc = "awaiting"
    /\ LET m == RecordMetrics(failing)
           fired == FiredRules(pipe.method, pipe.endpoint, duration_ms)
           incremented ==
               Incremented(fired, "FITNESS_VIOLATIONS" \notin failing)
           status == StatusOf(fired, incremented)
           warnings ==
               (IF m.warned
                   THEN <<LogEntry("Metrics recording failed",
                                   "-", NoDuration, "-")>>
                   ELSE <<>>)
               \o FitnessWarnings(fired, pipe.request_id, duration_ms)
       IN  pipe' = [pipe EXCEPT !.pc = "returned", !.inner = response,
                       !.duration_ms = duration_ms, !.failing = failing,
                       !.request_count = @ + m.request_count,
                       !.duration_samples = @ + m.duration_samples,
                       !.fired = fired, !.violations = incremented,
                       !.log = @ \o warnings
                                 \o <<LogEntry("Request completed",
                                               pipe.request_id, duration_ms,
                                               "-")>>,
                       !.result = [response EXCEPT !.headers =
                                      AddHeaders(@, pipe.request_id,
                                                 duration_ms, status)]]
    /\ UNCHANGED <<now, limiterVars, cacheVars, tr, fit, gp>>

\* Lines 233-246: call_next raises `exc` after duration_ms; the failure is
\* logged and the same exception is raised again.
CallNextRaises(exc, duration_ms) ==
    /\ pipe.pc = "awaiting"
    /\ pipe' = [pipe EXCEPT !.pc = "raised", !.inner = exc,
                   !.duration_ms = duration_ms,
                   !.log = Append(@, LogEntry("Request failed",
                                              pipe.request_id, duration_ms,
                                              exc.error)),
                   !.result = exc]
    /\ UNCHANGED <<now, limiterVars, cacheVars, tr, fit, gp>>

\* Lines 426-445: the handler registered for Exception receives what the
\* pipeline raised.  (Where the HTTPException of the limiter goes is decided
\* by the framework.)
general_exception_handler ==
    /\ pipe.pc = "raised"
    /\ pipe.result.error_type # "HTTPException"
    /\ pipe' = [pipe EXCEPT !.pc = "handled",
                   !.log = Append(@, LogEntry("Unexpected error occurred",
                                              pipe.state_request_id,
                                              NoDuration, pipe.result.error)),
                   !.client = ErrorBody(pipe.result, pipe.state_request_id)]
    /\ UNCHANGED <<now, limiterVars, cacheVars, tr, fit, gp>>

NextPipeline ==
    \/ \E id \in RequestIds : PipelineEnter(id)
    \/ \E r \in CallNextResponses, d \in Durations, f \in SUBSET Sinks :
           CallNextReturns(r, d, f)
    \/ \E e \in CallNextExceptions, d \in Durations : CallNextRaises(e, d)
    \/ general_exception_handler

\* RateLimitMiddleware.dispatch, lines 14-34: from entry up to the raise or
\* the await; the Authorization header is not read.
SimpleDispatchEnter(r, client_ip, auth_header) ==
    /\ req[r].pc = "idle"
    /\ IF r = 1 THEN TRUE ELSE req[r - 1].pc # "idle"
    /\ LET current_time == now
           key == SimpleKeyOf(client_ip, current_time)
           store == CleanOld(Increment(InitCounter(memory_store, key), key),
                             current_time \div Period)
           entered == [IdleReq EXCEPT !.client_ip = client_ip,
                          !.auth_header = auth_header,
                          !.current_time = current_time,
                          !.count = store[key]]
       IN  /\ memory_store' = store
           /\ Exceeds(store[key], InstalledCalls)
                \/ Cardinality(InHandler) < MaxInFlight
           /\ IF Exceeds(store[key], InstalledCalls)
              THEN req' = [req EXCEPT ![r] =
                       [entered EXCEPT !.pc = "rejected",
                          !.outcome = [kind |-> "HTTPException",
                                       status_code |-> 429,
                                       detail |-> PlainDetail,
                                       headers |-> NoHeaders]]]
              ELSE req' = [req EXCEPT ![r] =
                       [entered EXCEPT !.pc = "handler",
                          !.handler_calls = @ + 1]]
    /\ UNCHANGED <<now, tr, cacheVars, fit, pipe, gp>>

\* RateLimitMiddleware.dispatch, lines 34-35: the response of call_next is
\* returned as it is.
SimpleHandlerReturn(r) ==
    /\ req[r].pc = "handler"
    /\ req' = [req EXCEPT ![r] =
                  [@ EXCEPT !.pc = "done",
                     !.outcome = [kind |-> "response", status_code |-> 200,
                                  detail |-> NoDetail,
                                  headers |-> NoHeaders]]]
    /\ UNCHANGED <<now, memory_store, tr, cacheVars, fit, pipe, gp>>

NextInstalled ==
    \/ Tick
    \/ \E r \in Reqs, p \in RequestInputs : SimpleDispatchEnter(r, p[1], p[2])
    \/ \E r \in Reqs : SimpleHandlerReturn(r)

\* get_paper, lines 34-41: the lookup, and either the return of the cached
\* value or the start of the fetch.
PaperLookup(g, cache_key) ==
    /\ gp[g].pc = "idle"
    /\ LET res == CacheGet(cache, ttl_cache, cache_key, now)
           looked == [gp[g] EXCEPT !.cache_key = cache_key,
                         !.cached_paper = res.ret,
                         !.looked = PaperEvents + 1]
       IN  /\ cache' = res.cache
           /\ ttl_cache' = res.ttl_cache
           /\ op' = [NoOp EXCEPT !.name = "get", !.key = cache_key,
                        !.at = now, !.ret = res.ret]
           /\ gp' = [gp EXCEPT ![g] =
                        IF ServeFromCache(res.ret)
                        THEN [looked EXCEPT !.pc = "returned",
                                            !.ret = res.ret]
                        ELSE [looked EXCEPT !.pc = "fetching"]]
    /\ UNCHANGED <<now, last_set, limiterVars, tr, fit, pipe>>

\* get_paper, lines 41-70: the fetch yields the row `paper`, the result is
\* stored with ttl=300 and returned.
PaperFetched(g, paper) ==
    /\ gp[g].pc = "fetching"
    /\ LET res == CacheSet(cache, ttl_cache, gp[g].cache_key, paper,
                           PaperTtl, now)
       IN  /\ cache' = res.cache
           /\ ttl_cache' = res.ttl_cache
           /\ op' = [NoOp EXCEPT !.name = "set", !.key = gp[g].cache_key,
                        !.at = now,
                        !.replaced = EntryOf(cache, ttl_cache,
                                             gp[g].cache_key)]
    /\ last_set' = [last_set EXCEPT ![gp[g].cache_key] =
                       [state |-> "set", value |-> paper, at |-> now,
                        ttl |-> PaperTtl]]
    /\ gp' = [gp EXCEPT ![g] = [@ EXCEPT !.pc = "returned",
                                   !.paper = paper, !.ret = paper,
                                   !.stored = PaperEvents + 1]]
    /\ UNCHANGED <<now, limiterVars, tr, fit, pipe>>

\* get_paper, lines 41-44: the fetch finds no row; HTTPException 404 is
\* raised and nothing is stored.
PaperNotFound(g) ==
    /\ gp[g].pc = "fetching"
    /\ gp' = [gp EXCEPT ![g] = [@ EXCEPT !.pc = "not_found"]]
    /\ UNCHANGED <<now, limiterVars, cacheVars, tr, fit, pipe>>

NextPaper ==
    \/ Tick
    \/ \E g \in Papers : PaperNotFound(g)
    \/ \E g \in Papers, k \in CacheKeys : PaperLookup(g, k)
    \/ \E g \in Papers, v \in CacheValues : PaperFetched(g, v)

Next ==
    \/ Tick
    \/ \E r \in Reqs, p \in RequestInputs : DispatchEnter(r, p[1], p[2])
    \/ \E r \in Reqs : HandlerReturn(r)

Spec == Init /\ [][Next]_vars

SpecCache == Init /\ [][NextCache]_vars

SpecInstalled == Init /\ [][NextInstalled]_vars

InitTier ==
    /\ now = 0
    /\ memory_store = <<>>
    /\ req = [r \in Reqs |-> IdleReq]
    /\ tr \in {[pc |-> "input", auth_header |-> h, user_tier |-> "-"] :
                  h \in AllHeaders}
    /\ cache = <<>>
    /\ ttl_cache = <<>>
    /\ last_set = [k \in CacheKeys |-> NeverSet]
    /\ op = NoOp
    /\ fit = FitOff
    /\ pipe = PipeOff
    /\ gp = GpOff

SpecTier == InitTier /\ [][NextTier]_vars

InitFitness ==
    /\ now = 0
    /\ memory_store = <<>>
    /\ req = [r \in Reqs |-> IdleReq]
    /\ tr = TierOff
    /\ cache = <<>>
    /\ ttl_cache = <<>>
    /\ last_set = [k \in CacheKeys |-> NeverSet]
    /\ op = NoOp
    /\ fit \in {[FitOff EXCEPT !.pc = "request", !.method = m,
                    !.endpoint = p, !.duration_ms = d, !.sink_ok = ok] :
                    m \in Methods, p \in Paths, d \in Durations,
                    ok \in BOOLEAN}
    /\ pipe = PipeOff
    /\ gp = GpOff

SpecFitness == InitFitness /\ [][NextFitness]_vars

InitPipeline ==
    /\ now = 0
    /\ memory_store = <<>>
    /\ req = [r \in Reqs |-> IdleReq]
    /\ tr = TierOff
    /\ cache = <<>>
    /\ ttl_cache = <<>>
    /\ last_set = [k \in CacheKeys |-> NeverSet]
    /\ op = NoOp
    /\ fit = FitOff
    /\ pipe \in {[PipeOff EXCEPT !.pc = "request", !.method = m,
                     !.endpoint = p] : m \in Methods, p \in Paths}
    /\ gp = GpOff

SpecPipeline == InitPipeline /\ [][NextPipeline]_vars

SpecPaper == Init /\ [][NextPaper]_vars

(***************************************************************************)
(* Properties of the rate limiter                                          *)
(***************************************************************************)
Windows == 0..(MaxTime \div Period + 1)
Keys == Clients \X Tiers \X Windows

DispatchedFor(k) == {q \in Reqs : Dispatched(req[q]) /\ ReqKey(req[q]) = k}
AdmittedFor(k) == {q \in Reqs : Admitted(req[q]) /\ ReqKey(req[q]) = k}
RejectedFor(k) == {q \in Reqs : req[q].pc = "rejected" /\ ReqKey(req[q]) = k}

\* C1: a request is admitted if and only if fewer than quota requests of its
\* client and tier were counted before it in its own window: the first Q of
\* a window are admitted, the later ones rejected, and a new window starts
\* again from zero.
C1_FirstQPerWindow ==
    [][\A r \in Reqs :
         (req[r].pc = "idle" /\ req'[r].pc # "idle") =>
            LET k == ReqKey(req'[r])
            IN  (req'[r].pc = "handler")
                  <=> (Cardinality(DispatchedFor(k)) < limits[k[2]].calls)]_vars

\* Q admitted and one rejected in a window, Q admitted again in the next.
C1_Witness ==
    \E c \in Clients, t \in Tiers, w \in Windows :
        /\ Cardinality(AdmittedFor(<<c, t, w>>)) = limits[t].calls
        /\ RejectedFor(<<c, t, w>>) # {}
        /\ Cardinality(AdmittedFor(<<c, t, w + 1>>)) = limits[t].calls

\* C2: whatever the interleaving of the dispatch coroutines, at most quota
\* requests of one client, tier and window are admitted.
C2_NoOverAdmission ==
    \A r \in Reqs :
        Admitted(req[r]) =>
            Cardinality(AdmittedFor(ReqKey(req[r])))
                <= limits[req[r].user_tier].calls

\* More than Q requests of one window, Q > 1, overlap: Q of them are
\* inside their handler and the others were rejected.
C2_Witness ==
    \E k \in Keys :
        /\ limits[k[2]].calls > 1
        /\ Cardinality(DispatchedFor(k)) > limits[k[2]].calls
        /\ Cardinality(DispatchedFor(k) \cap InHandler) = limits[k[2]].calls

\* C3: a request whose count exceeds the quota ends with HTTPException 429
\* whose detail names its tier, the quota and the period, and its handler
\* is never called; the handler is called (once) exactly for the others.
C3_RejectionVisible ==
    \A r \in Reqs :
        Dispatched(req[r]) =>
            LET q == req[r]
                t == ResolveTier(q.auth_header)
                over == q.count > limits[t].calls
            IN  /\ over => /\ q.pc = "rejected"
                           /\ q.outcome.kind = "HTTPException"
                           /\ q.outcome.status_code = 429
                           /\ q.outcome.detail.tier = t
                           /\ q.outcome.detail.calls = limits[t].calls
                           /\ q.outcome.detail.period = limits[t].period
                /\ q.handler_calls = (IF over THEN 0 ELSE 1)
                /\ ~over => q.pc \in {"handler", "done", "failed"}

C3_Witness ==
    \E r \in Reqs :
        /\ req[r].pc = "rejected"
        /\ req[r].outcome.status_code = 429
        /\ req[r].handler_calls = 0

\* C9 as stated: the remaining quota of a response is computed from the
\* count the request obtained at admission.
C9_RemainingFromAdmission ==
    \A r \in Reqs :
        req[r].pc = "done" =>
            req[r].outcome.headers.remaining =
                Max(0, limits[req[r].user_tier].calls - req[r].count)

\* C9 amended: when the handler returns and the headers are added, limit,
\* tier and reset are those of the admission, and remaining is computed
\* from the value the counter has at that moment, which is at least the
\* count obtained at admission.
C9_RemainingAtReturn ==
    [][\A r \in Reqs :
         (req[r].pc = "handler" /\ req'[r].pc = "done") =>
            LET q == req[r]
                lim == limits[ResolveTier(q.auth_header)]
                c == memory_store[ReqKey(q)]
                h == req'[r].outcome.headers
            IN  /\ req'[r].outcome.kind = "response"
                /\ h.limit = lim.calls
                /\ h.tier = ResolveTier(q.auth_header)
                /\ h.reset = (q.current_time \div lim.period + 1) * lim.period
                /\ h.remaining = (IF c > lim.calls THEN 0 ELSE lim.calls - c)
                /\ c >= q.count]_vars

\* A response whose remaining quota differs from the one at admission.
C9_Witness ==
    \E r \in Reqs :
        /\ req[r].pc = "done"
        /\ req[r].outcome.headers.remaining
             < limits[req[r].user_tier].calls - req[r].count

Min(a, b) == IF a < b THEN a ELSE b

\* The requests of client c and tier t admitted at a time in a..b.
AdmittedIn(c, t, a, b) ==
    {q \in Reqs : /\ Admitted(req[q])
                  /\ req[q].client_ip = c
                  /\ req[q].user_tier = t
                  /\ req[q].current_time \in a..b}

\* C15: for one client and tier, the requests admitted in a time interval
\* of length at most the period (taken from the time of any admitted
\* request) are at most twice the quota.
C15_BoundaryBurst ==
    \A r \in Reqs :
        Admitted(req[r]) =>
            LET q == req[r]
                lim == limits[q.user_tier]
            IN  Cardinality(AdmittedIn(q.client_ip, q.user_tier,
                                       q.current_time,
                                       q.current_time + lim.period))
                    <= 2 * lim.calls

\* Q requests admitted in the last second of a window and Q more in the
\* first second of the next: 2 * Q within two seconds, and a later one of
\* the next window rejected.
C15_Witness ==
    \E c \in Clients, t \in Tiers, w \in Windows :
        LET boundary == (w + 1) * limits[t].period
        IN  /\ Cardinality(AdmittedIn(c, t, boundary - 1, boundary - 1))
                 = limits[t].calls
            /\ Cardinality(AdmittedIn(c, t, boundary, boundary))
                 = limits[t].calls
            /\ Cardinality(AdmittedIn(c, t, boundary - 1, boundary))
                 = 2 * limits[t].calls
            /\ RejectedFor(<<c, t, w + 1>>) # {}

\* C16: every invocation adds exactly one to the counter of its key
\* (created at 0 if missing) and is admitted if and only if the new count
\* is <= quota; for every stored counter the number of requests admitted
\* under its key is min(count, quota).
C16_CountEveryInvocation ==
    [][\A r \in Reqs :
         (req[r].pc = "idle" /\ req'[r].pc # "idle") =>
            LET k == ReqKey(req'[r])
                old == IF k \in DOMAIN memory_store THEN memory_store[k]
                       ELSE 0
            IN  /\ k \in DOMAIN memory_store'
                /\ memory_store'[k] = old + 1
                /\ req'[r].count = old + 1
                /\ (req'[r].pc = "handler")
                     <=> (memory_store'[k] <= limits[k[2]].calls)
                /\ (req'[r].pc = "rejected")
                     <=> (memory_store'[k] > limits[k[2]].calls)
                /\ \A j \in DOMAIN memory_store' :
                       /\ j # k => memory_store'[j] = memory_store[j]
                       /\ Cardinality({q \in Reqs :
                                         /\ Admitted(req'[q])
                                         /\ ReqKey(req'[q]) = j})
                            = Min(memory_store'[j], limits[j[2]].calls)]_vars

\* A counter above its quota: quota requests admitted, the others counted
\* and rejected.
C16_Witness ==
    \E k \in DOMAIN memory_store :
        /\ memory_store[k] > limits[k[2]].calls
        /\ Cardinality(AdmittedFor(k)) = limits[k[2]].calls
        /\ Cardinality(DispatchedFor(k)) = memory_store[k]

\* C17: right after an invocation at time t no stored counter has a window
\* index below floor(t / period) - 1, whatever its client and tier, and a
\* client and tier have at most two counters.
C17_StaleWindowsRemoved ==
    [][(\E r \in Reqs : req[r].pc = "idle" /\ req'[r].pc # "idle") =>
          /\ \A k \in DOMAIN memory_store' :
                 WindowOf(k) >= (now \div Period) - 1
          /\ \A k \in DOMAIN memory_store' :
                 Cardinality({j \in DOMAIN memory_store' :
                                 j[1] = k[1] /\ j[2] = k[2]}) <= 2]_vars

\* A counter of window w was removed by a request of another client, two
\* windows later, while a client and tier hold two counters.
C17_Witness ==
    \E r1, r2 \in Reqs :
        /\ Dispatched(req[r1])
        /\ Dispatched(req[r2])
        /\ req[r1].client_ip # req[r2].client_ip
        /\ ReqKey(req[r1])[3] + 2 = ReqKey(req[r2])[3]
        /\ ReqKey(req[r1]) \notin DOMAIN memory_store
        /\ \E j \in DOMAIN memory_store :
               /\ j # ReqKey(req[r2])
               /\ j[1] = req[r2].client_ip
               /\ j[2] = req[r2].user_tier

\* C25: an admitted request never ends in the KeyError of line 86: while
\* its handler runs, the counter of its key stays stored.
C25_CounterStillStored ==
    \A r \in Reqs :
        /\ req[r].pc # "failed"
        /\ req[r].pc = "handler" => ReqKey(req[r]) \in DOMAIN memory_store

\* The requests of client c and tier t counted in window w.
CountedIn(c, t, w) ==
    {q \in Reqs : /\ Dispatched(req[q])
                  /\ req[q].client_ip = c
                  /\ req[q].user_tier = t
                  /\ req[q].current_time \div limits[t].period = w}

\* C26: a request of client c under tier t leaves the counters of every
\* other client and of c under every other tier as they are, apart from
\* the removal of stale windows, and is admitted if and only if fewer than
\* quota(t) requests of c under t were counted before it in its window.
C26_PerClientAndTier ==
    [][\A r \in Reqs :
         (req[r].pc = "idle" /\ req'[r].pc # "idle") =>
            LET c == req'[r].client_ip
                t == req'[r].user_tier
                w == req'[r].current_time \div limits[t].period
            IN  /\ t = ResolveTier(req'[r].auth_header)
                /\ \A j \in DOMAIN memory_store :
                       (j[1] # c \/ j[2] # t) =>
                          IF j \in DOMAIN memory_store'
                          THEN memory_store'[j] = memory_store[j]
                          ELSE j[3] < w - 1
                /\ (req'[r].pc = "handler")
                     <=> (Cardinality(CountedIn(c, t, w)) < limits[t].calls)]_vars

\* A client whose anonymous quota of the window is used up (one request
\* rejected) was then admitted under the student tier, counted from one.
C26_Witness ==
    \E r1, r2 \in Reqs :
        /\ r1 < r2
        /\ req[r1].pc = "rejected"
        /\ req[r1].user_tier = "anonymous"
        /\ Admitted(req[r2])
        /\ req[r2].user_tier = "student"
        /\ req[r2].client_ip = req[r1].client_ip
        /\ req[r2].current_time = req[r1].current_time
        /\ req[r2].count = 1

\* C27: an invocation at time t keeps every counter of the window
\* floor(t / period) and of the window before it, whatever its client and
\* tier, and lowers none of them.
C27_LiveWindowsKept ==
    [][(\E r \in Reqs : req[r].pc = "idle" /\ req'[r].pc # "idle") =>
          \A j \in DOMAIN memory_store :
              WindowOf(j) >= (now \div Period) - 1 =>
                 /\ j \in DOMAIN memory_store'
                 /\ memory_store'[j] >= memory_store[j]]_vars

\* After the last invocation the counter of another client for the window
\* before is still stored, with its count.
C27_Witness ==
    \E r \in Reqs, j \in DOMAIN memory_store :
        /\ Dispatched(req[r])
        /\ \A q \in Reqs : q > r => req[q].pc = "idle"
        /\ req[r].current_time = now
        /\ j[1] # req[r].client_ip
        /\ WindowOf(j) = (now \div Period) - 1
        /\ memory_store[j] = Cardinality(DispatchedFor(j))
        /\ memory_store[j] > 0

(***************************************************************************)
(* Properties of the installed limiter                                     *)
(***************************************************************************)
SimpleDispatchedFor(k) ==
    {q \in Reqs : Dispatched(req[q]) /\ SimpleReqKey(req[q]) = k}
SimpleAdmittedFor(k) ==
    {q \in Reqs : Admitted(req[q]) /\ SimpleReqKey(req[q]) = k}

\* C14: a request of a client IP reaches its handler if and only if fewer
\* than InstalledCalls requests of that IP, whatever their Authorization
\* header, were counted before it in its window, and is rejected with 429
\* otherwise; so at most InstalledCalls requests of one IP and window reach
\* a handler.
C14_InstalledLimit ==
    [][\A r \in Reqs :
         (req[r].pc = "idle" /\ req'[r].pc # "idle") =>
            LET k == SimpleReqKey(req'[r])
                before == Cardinality(SimpleDispatchedFor(k))
            IN  /\ (req'[r].pc = "handler") <=> (before < InstalledCalls)
                /\ (req'[r].pc = "rejected") <=> (before >= InstalledCalls)
                /\ req'[r].handler_calls
                     = (IF before < InstalledCalls THEN 1 ELSE 0)
                /\ Cardinality({q \in Reqs :
                                  /\ Admitted(req'[q])
                                  /\ SimpleReqKey(req'[q]) = k})
                     <= InstalledCalls]_vars

\* One IP sent requests with different Authorization headers in one window:
\* InstalledCalls were admitted and the next one was rejected.
C14_Witness ==
    \E r1, r2, r3 \in Reqs :
        /\ SimpleReqKey(req[r1]) = SimpleReqKey(req[r3])
        /\ SimpleReqKey(req[r2]) = SimpleReqKey(req[r3])
        /\ Admitted(req[r1])
        /\ Admitted(req[r2])
        /\ req[r1].auth_header # req[r2].auth_header
        /\ req[r3].pc = "rejected"
        /\ req[r3].outcome.status_code = 429
        /\ Cardinality(SimpleAdmittedFor(SimpleReqKey(req[r3])))
             = InstalledCalls

(***************************************************************************)
(* Properties of the cache                                                 *)
(***************************************************************************)
\* A step that is a call get(k) / delete(k) at the current time.
GetStep(k) == op'.name = "get" /\ op'.key = k /\ now' = now
DeleteStep(k) == op'.name = "delete" /\ op'.key = k /\ now' = now
SetStep(k) == op'.name = "set" /\ op'.key = k /\ now' = now
StatsStep == op'.name = "get_stats" /\ now' = now

\* C4: get(k) right after set(k, v, ttl), at the same clock value, returns
\* v, for every ttl >= 0 and whatever was stored for k before.
C4_SetThenGet ==
    [][(op.name = "set" /\ op.at = now /\ GetStep(op.key)) =>
          /\ op'.ret = last_set[op.key].value
          /\ op'.ret \in CacheValues
          /\ op'.error = "none"]_vars

\* get(k) returned v at the time of a set(k, v, 0).
C4_Witness ==
    /\ op.name = "get"
    /\ last_set[op.key].state = "set"
    /\ last_set[op.key].at = op.at
    /\ last_set[op.key].ttl = 0
    /\ op.ret = last_set[op.key].value

\* C5: while the last set(k, v, ttl), at time t, is not followed by a set or
\* delete of k, get(k) returns v strictly before t + ttl and absent strictly
\* after t + ttl.
C5_TtlExpiry ==
    (op.name = "get" /\ last_set[op.key].state = "set") =>
        LET ls == last_set[op.key]
        IN  /\ op.at < ls.at + ls.ttl => op.ret = ls.value
            /\ op.at > ls.at + ls.ttl => op.ret = Absent

\* get(k) returned absent after t + ttl, ttl > 0, with no delete of k.
C5_Witness ==
    /\ op.name = "get"
    /\ last_set[op.key].state = "set"
    /\ last_set[op.key].ttl > 0
    /\ op.at > last_set[op.key].at + last_set[op.key].ttl
    /\ op.ret = Absent

\* C6 as stated: get sees a stored entry if and only if the current time is
\* strictly before expires_at.
C6_VisibleBeforeExpiry ==
    [][\A k \in CacheKeys :
         (GetStep(k) /\ k \in DOMAIN cache) =>
            op'.ret = (IF now < ttl_cache[k] THEN cache[k] ELSE Absent)]_vars

\* C6 amended: get sees a stored entry if and only if the current time is
\* not after expires_at; at the instant of expires_at the entry is visible.
C6_VisibleUntilExpiry ==
    [][\A k \in CacheKeys :
         (GetStep(k) /\ k \in DOMAIN cache) =>
            op'.ret = (IF now <= ttl_cache[k] THEN cache[k] ELSE Absent)]_vars

\* get(k) returned the value at the instant of expires_at.
C6_Witness ==
    /\ op.name = "get"
    /\ op.ret # Absent
    /\ op.key \in DOMAIN ttl_cache
    /\ ttl_cache[op.key] = op.at

\* C7: after delete(k) and until the next set(k), get(k) returns absent;
\* delete(k) raises nothing, leaves k unstored, and changes nothing when k
\* was not stored.
C7_DeleteThenGet ==
    [][\A k \in CacheKeys :
         /\ (GetStep(k) /\ last_set[k].state = "deleted") => op'.ret = Absent
         /\ DeleteStep(k) =>
               /\ op'.error = "none"
               /\ k \notin DOMAIN cache'
               /\ k \notin DOMAIN cache =>
                     (cache' = cache /\ ttl_cache' = ttl_cache)]_vars

\* get(k) returned absent after a delete that cut a TTL short.
C7_Witness ==
    /\ op.name = "get"
    /\ last_set[op.key].state = "deleted"
    /\ op.at < last_set[op.key].at + last_set[op.key].ttl
    /\ op.ret = Absent

\* C18: a get(k) that finds k stored and expired removes k from both maps
\* and returns absent; in every other step a stored entry stays as it is
\* unless the step is a delete(k) or a set(k): the passing of time and the
\* operations on other keys remove nothing.
C18_LazyEviction ==
    [][\A k \in CacheKeys :
         /\ (/\ GetStep(k)
             /\ k \in DOMAIN cache
             /\ k \in DOMAIN ttl_cache
             /\ now > ttl_cache[k]) =>
               /\ k \notin DOMAIN cache'
               /\ k \notin DOMAIN ttl_cache'
               /\ op'.ret = Absent
         /\ (/\ k \in DOMAIN cache
             /\ ~DeleteStep(k)
             /\ ~SetStep(k)
             /\ ~(GetStep(k) /\ now > ttl_cache[k])) =>
               /\ k \in DOMAIN cache'
               /\ k \in DOMAIN ttl_cache'
               /\ cache'[k] = cache[k]
               /\ ttl_cache'[k] = ttl_cache[k]]_vars

\* One key is still stored a second after its expiry and after a later
\* operation on the other key, which a get found expired and removed.
C18_Witness ==
    \E k1, k2 \in CacheKeys :
        /\ k1 # k2
        /\ k1 \in DOMAIN cache
        /\ k1 \in DOMAIN ttl_cache
        /\ now > ttl_cache[k1]
        /\ op.at > ttl_cache[k1]
        /\ op.name = "get"
        /\ op.key = k2
        /\ op.ret = Absent
        /\ last_set[k2].state = "set"
        /\ k2 \notin DOMAIN cache
        /\ k2 \notin DOMAIN ttl_cache

\* C19: after set(k, v2, ttl2) at time t the value of k is v2 and its
\* expiry is t + ttl2, whatever k held before, and a get at that instant
\* returns v2; every stored entry has the value and the expiry of the last
\* set of its key.
C19_LastSetWins ==
    [][\A k \in CacheKeys :
         /\ SetStep(k) =>
               /\ k \in DOMAIN cache'
               /\ cache'[k] = last_set'[k].value
               /\ cache'[k] \in CacheValues
               /\ ttl_cache'[k] = now + last_set'[k].ttl
               /\ last_set'[k].at = now
               /\ CacheGet(cache', ttl_cache', k, now).ret = cache'[k]
         /\ k \in DOMAIN cache' =>
               /\ cache'[k] = last_set'[k].value
               /\ ttl_cache'[k] = last_set'[k].at + last_set'[k].ttl]_vars

\* A set replaced a live entry of another value by one that expires
\* earlier.
C19_Witness ==
    /\ op.name = "set"
    /\ op.replaced.value \in CacheValues
    /\ op.replaced.value # cache[op.key]
    /\ op.at <= op.replaced.expires_at
    /\ ttl_cache[op.key] < op.replaced.expires_at
    /\ ttl_cache[op.key] = op.at + last_set[op.key].ttl

\* C20: a get, set or delete of k leaves every other key as it is: stored
\* or not, with its value and its expiry.
C20_OtherKeysUntouched ==
    [][\A k \in CacheKeys :
         (GetStep(k) \/ SetStep(k) \/ DeleteStep(k)) =>
            \A j \in CacheKeys \ {k} :
                /\ (j \in DOMAIN cache') <=> (j \in DOMAIN cache)
                /\ (j \in DOMAIN ttl_cache') <=> (j \in DOMAIN ttl_cache)
                /\ j \in DOMAIN cache => cache'[j] = cache[j]
                /\ j \in DOMAIN ttl_cache =>
                      ttl_cache'[j] = ttl_cache[j]]_vars

\* A key was set, read as expired and removed, or deleted, while the other
\* key kept the entry of its own last set.
C20_Witness ==
    \E k, j \in CacheKeys :
        /\ k # j
        /\ op.key = k
        /\ op.name \in {"get", "delete"}
        /\ last_set[k].state # "never"
        /\ k \notin DOMAIN cache
        /\ j \in DOMAIN cache
        /\ cache[j] = last_set[j].value
        /\ ttl_cache[j] = last_set[j].at + last_set[j].ttl
        /\ last_set[j].at < op.at

\* C23: a stored entry leaves the value map only in a delete of its key or
\* in a get of its key that finds it expired; a set stores its key and
\* displaces nothing, however many entries are stored.
C23_NoSizeEviction ==
    [][\A k \in CacheKeys :
         /\ (k \in DOMAIN cache /\ k \notin DOMAIN cache') =>
               \/ DeleteStep(k)
               \/ GetStep(k) /\ now > ttl_cache[k]
         /\ SetStep(k) =>
               /\ DOMAIN cache' = DOMAIN cache \cup {k}
               /\ DOMAIN ttl_cache' = DOMAIN ttl_cache \cup {k}]_vars

\* Every key is stored, one of them expired and older than the set that
\* just stored the other.
C23_Witness ==
    /\ op.name = "set"
    /\ DOMAIN cache = CacheKeys
    /\ \E j \in CacheKeys \ {op.key} :
           /\ now > ttl_cache[j]
           /\ last_set[j].at < op.at

\* C28: a get(k) that returns a value changes neither map: the value and
\* the expiry of k stay those of the last set(k).
C28_ReadOnlyHit ==
    [][\A k \in CacheKeys :
         (GetStep(k) /\ op'.ret # Absent) =>
            /\ cache' = cache
            /\ ttl_cache' = ttl_cache
            /\ op'.ret = cache[k]
            /\ ttl_cache'[k] = last_set[k].at + last_set[k].ttl]_vars

\* A value was read after the time of its set and the expiry is still the
\* one the set computed.
C28_Witness ==
    /\ op.name = "get"
    /\ op.ret \in CacheValues
    /\ op.at > last_set[op.key].at
    /\ op.key \in DOMAIN ttl_cache
    /\ ttl_cache[op.key] = last_set[op.key].at + last_set[op.key].ttl
    /\ now > ttl_cache[op.key]

\* C29: get_stats changes neither map and reports total_keys = number of
\* keys of the value map, expired or not, with the fixed hit rate and
\* memory figures.
C29_StatsSnapshot ==
    [][StatsStep =>
          /\ cache' = cache
          /\ ttl_cache' = ttl_cache
          /\ op'.stats.total_keys
               = Cardinality({k \in CacheKeys : k \in DOMAIN cache})
          /\ op'.stats.hit_rate = "0.85"
          /\ op'.stats.memory_usage = "45MB"]_vars

\* get_stats counted two keys, one of them expired.
C29_Witness ==
    /\ op.name = "get_stats"
    /\ op.stats.total_keys = 2
    /\ DOMAIN cache = CacheKeys
    /\ \E k \in CacheKeys : op.at > ttl_cache[k]

\* C30: the value map and the expiry map have the same key set.
C30_SameKeySet == DOMAIN cache = DOMAIN ttl_cache

\* One key was removed by a get that found it expired and the other is
\* stored: both maps hold that other key alone.
C30_Witness ==
    \E k, j \in CacheKeys :
        /\ op.name = "get"
        /\ op.key = k
        /\ op.ret = Absent
        /\ last_set[k].state = "set"
        /\ op.at > last_set[k].at + last_set[k].ttl
        /\ DOMAIN cache = {j}
        /\ DOMAIN ttl_cache = {j}
        /\ j # k

(***************************************************************************)
(* Properties of the fitness functions                                     *)
(***************************************************************************)
\* C8 as stated: on a path that contains "/search", 250 ms increments the
\* search_response_time counter and no other and flags VIOLATION; 50 ms
\* increments nothing and flags PASS.
C8_SearchOnly ==
    (fit.pc = "evaluated" /\ fit.sink_ok
        /\ Contains(<<"/", "search">>, fit.endpoint)) =>
        /\ fit.duration_ms = 250 =>
              /\ fit.incremented = {"search_response_time"}
              /\ fit.status = "VIOLATION"
        /\ fit.duration_ms = 50 =>
              /\ fit.incremented = {}
              /\ fit.status = "PASS"

\* C8 amended: the request must not be a GET on a path that also contains
\* "/papers/" (the catalog rule fires there too); the counter is incremented
\* unless the metrics sink raises.
C8_SearchRoute ==
    fit.pc = "evaluated" =>
        /\ (/\ fit.duration_ms = 250
            /\ Contains(<<"/", "search">>, fit.endpoint)
            /\ ~(fit.method = "GET"
                   /\ Contains(<<"/", "papers", "/">>, fit.endpoint))) =>
              /\ fit.fired = {"search_response_time"}
              /\ fit.incremented =
                    (IF fit.sink_ok THEN {"search_response_time"} ELSE {})
              /\ fit.status = "VIOLATION"
        /\ fit.duration_ms = 50 =>
              /\ fit.fired = {}
              /\ fit.incremented = {}
              /\ fit.status = "PASS"

C8_Witness ==
    /\ fit.pc = "evaluated"
    /\ fit.duration_ms = 250
    /\ fit.endpoint = <<"/", "v1", "/", "search">>
    /\ fit.incremented = {"search_response_time"}
    /\ fit.status = "VIOLATION"

\* C21 as stated: the search rule looks for "search" and the catalog rule
\* for "papers" in the path.
C21_RulesByWord ==
    (fit.pc = "evaluated" /\ fit.sink_ok) =>
        /\ ("search_response_time" \in fit.incremented)
             <=> (Contains(<<"search">>, fit.endpoint)
                    /\ fit.duration_ms > 200)
        /\ ("catalog_response_time" \in fit.incremented)
             <=> (Contains(<<"papers">>, fit.endpoint)
                    /\ fit.method = "GET" /\ fit.duration_ms > 100)
        /\ ("gateway_response_time" \in fit.incremented)
             <=> (fit.duration_ms > 1000)
        /\ (fit.status = "VIOLATION") <=> (fit.incremented # {})

\* C21 amended: the search rule fires when the path contains "/search" and
\* duration > 200, the catalog rule when the path contains "/papers/", the
\* method is GET and duration > 100, the gateway rule when duration > 1000;
\* the rules are independent, each one that fires increments its own
\* counter unless the metrics sink raises, and the status is VIOLATION if
\* and only if a rule fired.
C21_RulesBySegment ==
    fit.pc = "evaluated" =>
        /\ ("search_response_time" \in fit.fired)
             <=> (Contains(<<"/", "search">>, fit.endpoint)
                    /\ fit.duration_ms > 200)
        /\ ("catalog_response_time" \in fit.fired)
             <=> (Contains(<<"/", "papers", "/">>, fit.endpoint)
                    /\ fit.method = "GET" /\ fit.duration_ms > 100)
        /\ ("gateway_response_time" \in fit.fired)
             <=> (fit.duration_ms > 1000)
        /\ fit.incremented = (IF fit.sink_ok THEN fit.fired ELSE {})
        /\ (fit.status = "VIOLATION") <=> (fit.fired # {})
        /\ (fit.status = "PASS") <=> (fit.fired = {})

\* The three rules fired for one request, and each counter was incremented.
C21_Witness ==
    /\ fit.pc = "evaluated"
    /\ fit.method = "GET"
    /\ fit.endpoint = <<"/", "papers", "/", "search">>
    /\ fit.duration_ms = 1001
    /\ fit.incremented = {"search_response_time", "catalog_response_time",
                          "gateway_response_time"}
    /\ fit.status = "VIOLATION"

(***************************************************************************)
(* Properties of the request pipeline                                      *)
(***************************************************************************)
\* C11: every response that the pipeline returns carries X-Request-ID (the
\* id drawn for the request), X-Response-Time (the formatted elapsed time)
\* and X-Fitness-Status (PASS or VIOLATION), and has the status code, the
\* body and the other headers of the response the handler produced.
C11_ResponseAugmented ==
    pipe.result.kind = "response" =>
        LET h == pipe.result.headers
        IN  /\ pipe.pc = "returned"
            /\ PipelineHeaderNames \subseteq DOMAIN h
            /\ h["X-Request-ID"] = pipe.request_id
            /\ h["X-Response-Time"] = FormatMs(pipe.duration_ms)
            /\ h["X-Fitness-Status"] \in {"PASS", "VIOLATION"}
            /\ pipe.result.status_code = pipe.inner.status_code
            /\ pipe.result.body = pipe.inner.body
            /\ \A n \in DOMAIN pipe.inner.headers \ PipelineHeaderNames :
                   n \in DOMAIN h /\ h[n] = pipe.inner.headers[n]

\* A 404 of the handler that already had an X-Request-ID header went out
\* with status 404, the id of the pipeline and the flag VIOLATION.
C11_Witness ==
    /\ pipe.pc = "returned"
    /\ pipe.inner.status_code = 404
    /\ "X-Request-ID" \in DOMAIN pipe.inner.headers
    /\ pipe.result.status_code = 404
    /\ pipe.result.headers["X-Request-ID"] = pipe.request_id
    /\ pipe.result.headers["X-Response-Time"] = "250.00ms"
    /\ pipe.result.headers["X-Fitness-Status"] = "VIOLATION"

\* C12: when metric objects raise, the request whose handler returned a
\* response still ends with that response and the three headers, and the
\* flag is VIOLATION exactly when a threshold was exceeded, whether or not
\* the violation counter could be incremented.
C12_SinkErrorsSwallowed ==
    (pipe.inner.kind = "response" /\ pipe.failing # {}) =>
        LET h == pipe.result.headers
            exceeded ==
                \/ SearchRule(pipe.method, pipe.endpoint, pipe.duration_ms)
                \/ CatalogRule(pipe.method, pipe.endpoint, pipe.duration_ms)
                \/ GatewayRule(pipe.method, pipe.endpoint, pipe.duration_ms)
        IN  /\ pipe.pc = "returned"
            /\ pipe.result.kind = "response"
            /\ pipe.result.status_code = pipe.inner.status_code
            /\ pipe.result.body = pipe.inner.body
            /\ PipelineHeaderNames \subseteq DOMAIN h
            /\ h["X-Fitness-Status"] =
                  (IF exceeded THEN "VIOLATION" ELSE "PASS")

\* Every metric object raised, a threshold was exceeded, nothing was
\* recorded, and the response went out flagged VIOLATION.
C12_Witness ==
    /\ pipe.pc = "returned"
    /\ pipe.failing = Sinks
    /\ pipe.fired # {}
    /\ pipe.violations = {}
    /\ pipe.request_count = 0
    /\ pipe.duration_samples = 0
    /\ pipe.result.headers["X-Fitness-Status"] = "VIOLATION"

\* @app.exception_handler(Exception) at line 426: an outer handler exists.
OuterHandlerExists == TRUE

\* The last entry of the log.
LastLog(log) == log[Len(log)]

\* C13 as stated: once the pipeline is done with an exception of the
\* handler, the failure is logged with request id and elapsed time and the
\* pipeline has produced a generic internal-error response; the exception
\* leaves the pipeline only if no outer handler exists.
C13_ConvertedAtBoundary ==
    (pipe.pc \in {"raised", "handled"}
        /\ pipe.inner.error_type # "HTTPException") =>
        /\ \E i \in 1..Len(pipe.log) :
               /\ pipe.log[i].event = "Request failed"
               /\ pipe.log[i].request_id = pipe.request_id
               /\ pipe.log[i].duration_ms = pipe.duration_ms
        /\ OuterHandlerExists =>
               /\ pipe.result.kind = "response"
               /\ pipe.result.status_code = 500
               /\ pipe.result.body # pipe.inner.error

\* C13 amended: the pipeline catches an exception of the handler, logs it
\* with request id and elapsed time and always raises it again unchanged,
\* without building a response; general_exception_handler, which receives
\* it, returns a body with code 500, the message "Internal server error"
\* and the request id, and nothing of the original error detail.
C13_LoggedAndReraised ==
    [][/\ (pipe.pc = "awaiting" /\ pipe'.pc = "raised") =>
             /\ LastLog(pipe'.log).event = "Request failed"
             /\ LastLog(pipe'.log).request_id = pipe.request_id
             /\ LastLog(pipe'.log).duration_ms = pipe'.duration_ms
             /\ pipe'.result = pipe'.inner
             /\ pipe'.result.kind = "exception"
             /\ pipe'.result.headers = <<>>
       /\ (pipe.pc = "raised" /\ pipe'.pc = "handled") =>
             /\ pipe.inner.error_type # "HTTPException"
             /\ pipe'.client.code = 500
             /\ pipe'.client.message = "Internal server error"
             /\ pipe'.client.request_id = pipe.request_id
             /\ pipe'.client.message # pipe.inner.error
             /\ pipe'.result = pipe.result]_vars

\* An exception of the handler was logged by the pipeline, raised again and
\* answered by general_exception_handler with the generic body.
C13_Witness ==
    /\ pipe.pc = "handled"
    /\ pipe.inner.error \in ErrorDetails
    /\ pipe.result.kind = "exception"
    /\ pipe.result.error = pipe.inner.error
    /\ pipe.client = ErrorBody(pipe.result, pipe.request_id)
    /\ \E i \in 1..Len(pipe.log) :
           /\ pipe.log[i].event = "Request failed"
           /\ pipe.log[i].duration_ms = pipe.duration_ms

\* C22: once the pipeline is done with a request, whether call_next
\* returned a response or raised (rejection of the limiter, exception of
\* the handler), the request counter was incremented once and one duration
\* sample was recorded, the metric objects working.
C22_EveryRequestCounted ==
    (pipe.pc \in {"returned", "raised", "handled"} /\ pipe.failing = {}) =>
        /\ pipe.request_count = 1
        /\ pipe.duration_samples = 1

(***************************************************************************)
(* Properties of get_paper                                                 *)
(***************************************************************************)
\* C24: a get_paper request returns at its lookup only a value that is
\* stored and not expired at that moment, and fetches otherwise; a request
\* that fetched stores the value it fetched with expiry now + ttl and
\* returns that value, whatever another request stored in the meantime, so
\* that the entry is the one of the set that ran last.
C24_OverlappingFetches ==
    [][\A g \in Papers :
         /\ (gp[g].pc = "idle" /\ gp'[g].pc # "idle") =>
               LET k == gp'[g].cache_key
                   live == /\ k \in DOMAIN cache
                           /\ ~(now > ttl_cache[k])
               IN  /\ (gp'[g].pc = "returned") <=> live
                   /\ (gp'[g].pc = "fetching") <=> ~live
                   /\ live => gp'[g].ret = cache[k]
         /\ (gp[g].pc = "fetching" /\ gp'[g].pc = "returned") =>
               LET k == gp[g].cache_key
               IN  /\ gp'[g].ret = gp'[g].paper
                   /\ gp'[g].ret \in CacheValues
                   /\ cache'[k] = gp'[g].paper
                   /\ ttl_cache'[k] = now + PaperTtl
                   /\ DOMAIN cache' = DOMAIN cache \cup {k}
                   /\ \A h \in Papers \ {g} : gp'[h] = gp[h]]_vars

\* Two requests for one paper both looked the key up before either stored
\* it, fetched different values and returned each its own; the cache holds
\* the value and the expiry of the set that ran last.
C24_Witness ==
    \E g, h \in Papers :
        /\ g # h
        /\ gp[g].pc = "returned"
        /\ gp[h].pc = "returned"
        /\ gp[g].cache_key = gp[h].cache_key
        /\ gp[g].looked < gp[h].looked
        /\ gp[h].looked < gp[g].stored
        /\ gp[g].stored < gp[h].stored
        /\ gp[g].ret = gp[g].paper
        /\ gp[h].ret = gp[h].paper
        /\ gp[g].paper # gp[h].paper
        /\ cache[gp[h].cache_key] = gp[h].paper
        /\ ttl_cache[gp[h].cache_key] = last_set[gp[h].cache_key].at + PaperTtl
        /\ op.name = "set"
        /\ op.replaced.value = gp[g].paper

(***************************************************************************)
(* Properties of the tier resolution                                       *)
(***************************************************************************)
\* C10: no credential gives anonymous, a valid credential the authenticated
\* tier, and the admin tier goes to admin credentials and to no other.
C10_TierFollowsIdentity ==
    tr.pc = "resolved" =>
        LET id == get_current_user(tr.auth_header)
        IN  /\ tr.user_tier \in Tiers
            /\ id = "none" => tr.user_tier = "anonymous"
            /\ id = "student" => tr.user_tier = "student"
            /\ id = "admin" => tr.user_tier = "admin"
            /\ id # "admin" => tr.user_tier # "admin"

====
